---- MODULE Spec2Model ----
(***************************************************************************)
(* Model of src/lambda/customer_api.py: the Lambda handler of the customer *)
(* API (lambda_handler) and the record service (CustomerService) over a    *)
(* DynamoDB table, an SSM parameter and the process clock.                 *)
(*                                                                         *)
(* Python str values that the code parses or builds character by character *)
(* (paths, the limit parameter, TTL_DAYS, customer_id, created_at) are     *)
(* sequences of one-character strings; str values the code only compares   *)
(* or copies are TLA+ strings.  A JSON document (a response body before    *)
(* json.dumps, a request body after json.loads) is a TLA+ function from    *)
(* keys to values.                                                         *)
(***************************************************************************)
EXTENDS Integers, Sequences, FiniteSets, TLC

VARIABLES store, clock, ttl_env, tz_offset, last

vars == <<store, clock, ttl_env, tz_offset, last>>

-----------------------------------------------------------------------------
(* Python values                                                           *)

PyNone == [py |-> "None"]

PyStr(s) == [py |-> "str", s |-> s]

Digits == <<"0", "1", "2", "3", "4", "5", "6", "7", "8", "9">>

IsDigit(c) == \E i \in 1..Len(Digits) : Digits[i] = c

DigitVal(c) == (CHOOSE i \in 1..Len(Digits) : Digits[i] = c) - 1

\* str.startswith(prefix)
StartsWith(s, prefix) ==
    /\ Len(s) >= Len(prefix)
    /\ SubSeq(s, 1, Len(prefix)) = prefix

\* The index of the first sep in s at or after position from, 0 when none.
Find(s, sep, from) ==
    IF \E i \in from..Len(s) : s[i] = sep
    THEN CHOOSE i \in from..Len(s) :
            /\ s[i] = sep
            /\ \A j \in from..(i - 1) : s[j] # sep
    ELSE 0

\* str.split(sep, 2): at most two splits, so at most three parts.
Split2(s, sep) ==
    LET i == Find(s, sep, 1) IN
    IF i = 0 THEN <<s>>
    ELSE LET j == Find(s, sep, i + 1) IN
         IF j = 0 THEN <<SubSeq(s, 1, i - 1), SubSeq(s, i + 1, Len(s))>>
         ELSE <<SubSeq(s, 1, i - 1), SubSeq(s, i + 1, j - 1),
                SubSeq(s, j + 1, Len(s))>>

\* needle in haystack, for two str values
Substring(needle, hay) ==
    \E i \in 1..(Len(hay) - Len(needle) + 1) :
        SubSeq(hay, i, i + Len(needle) - 1) = needle

\* str.strip() of blanks
RECURSIVE LStrip(_)
LStrip(s) == IF s # <<>> /\ Head(s) = " " THEN LStrip(Tail(s)) ELSE s

RECURSIVE RStrip(_)
RStrip(s) ==
    IF s # <<>> /\ s[Len(s)] = " " THEN RStrip(SubSeq(s, 1, Len(s) - 1)) ELSE s

RECURSIVE DigitsVal(_)
DigitsVal(s) ==
    IF s = <<>> THEN 0
    ELSE 10 * DigitsVal(SubSeq(s, 1, Len(s) - 1)) + DigitVal(s[Len(s)])

\* int(s) for a str s: blanks around, an optional sign, decimal digits;
\* anything else raises ValueError (ok = FALSE).
PyInt(s) ==
    LET t == RStrip(LStrip(s))
        signed == t # <<>> /\ Head(t) \in {"+", "-"}
        d == IF signed THEN Tail(t) ELSE t
    IN  IF d # <<>> /\ \A i \in 1..Len(d) : IsDigit(d[i])
        THEN [ok |-> TRUE,
              v |-> IF signed /\ Head(t) = "-" THEN 0 - DigitsVal(d)
                    ELSE DigitsVal(d)]
        ELSE [ok |-> FALSE, v |-> 0]

Max(a, b) == IF a >= b THEN a ELSE b

Min(a, b) == IF a <= b THEN a ELSE b

\* n as decimal digits, zero-padded to at least width characters (%02d, %04d)
RECURSIVE Pad(_, _)
Pad(n, width) ==
    IF width <= 1 /\ n < 10 THEN <<Digits[n + 1]>>
    ELSE Pad(n \div 10, width - 1) \o <<Digits[(n % 10) + 1]>>

-----------------------------------------------------------------------------
(* The clock: datetime                                                     *)

\* The calendar fields of a count of seconds since 1970-01-01T00:00:00
\* (the proleptic Gregorian calendar, as datetime computes them).
CivilFromSeconds(t) ==
    LET days == t \div 86400
        secs == t % 86400
        z    == days + 719468
        era  == z \div 146097
        doe  == z - era * 146097
        yoe  == (doe - doe \div 1460 + doe \div 36524 - doe \div 146096) \div 365
        doy  == doe - (365 * yoe + yoe \div 4 - yoe \div 100)
        mp   == (5 * doy + 2) \div 153
        d    == doy - (153 * mp + 2) \div 5 + 1
        m    == IF mp < 10 THEN mp + 3 ELSE mp - 9
        y    == yoe + era * 400 + (IF m <= 2 THEN 1 ELSE 0)
    IN  [year |-> y, month |-> m, day |-> d,
         hour |-> secs \div 3600, minute |-> (secs % 3600) \div 60,
         second |-> secs % 60]

\* datetime.now(): the local wall clock at POSIX time t
Now(t, offset) == CivilFromSeconds(t + offset)

\* Mutant of Strftime: '%y%m%d%H%M%S', a two-digit year.
StrftimeShortYear(dt) ==
    Pad(dt.year % 100, 2) \o Pad(dt.month, 2) \o Pad(dt.day, 2)
        \o Pad(dt.hour, 2) \o Pad(dt.minute, 2) \o Pad(dt.second, 2)

\* dt.strftime('%Y%m%d%H%M%S')
Strftime(dt) ==
    Pad(dt.year, 4) \o Pad(dt.month, 2) \o Pad(dt.day, 2)
        \o Pad(dt.hour, 2) \o Pad(dt.minute, 2) \o Pad(dt.second, 2)

\* dt.isoformat() of a datetime with microsecond = 0 (the clock of the model
\* counts whole seconds)
IsoFormat(dt) ==
    Pad(dt.year, 4) \o <<"-">> \o Pad(dt.month, 2) \o <<"-">> \o Pad(dt.day, 2)
        \o <<"T">> \o Pad(dt.hour, 2) \o <<":">> \o Pad(dt.minute, 2)
        \o <<":">> \o Pad(dt.second, 2)

\* datetime.utcnow().timestamp(): utcnow() is the UTC wall clock as a naive
\* datetime, and timestamp() reads a naive datetime as local time, so the
\* result at POSIX time t is t less the local UTC offset.
UtcNowTimestamp(t, offset) == t - offset

-----------------------------------------------------------------------------
(* JSON values, as json.loads returns them                                 *)

JDict(d) == [t |-> "dict", d |-> d]

JList(l) == [t |-> "list", l |-> l]

JStr(s) == [t |-> "str", s |-> s]

JNum(n) == [t |-> "int", n |-> n]

JNull == [t |-> "NoneType"]

JBool(b) == [t |-> "bool", b |-> b]

\* A str holding the JSON text of value v, and a str that is not JSON text.
JsonText(v) == [wellformed |-> TRUE, v |-> v]

NotJsonText == [wellformed |-> FALSE, v |-> JNull]

\* json.loads(s): None raises TypeError, text that is not JSON raises
\* json.JSONDecodeError, a subclass of ValueError.
json_loads(body) ==
    IF body.py = "None" THEN [raised |-> "TypeError", v |-> JNull]
    ELSE IF ~body.s.wellformed THEN [raised |-> "ValueError", v |-> JNull]
    ELSE [raised |-> "none", v |-> body.s.v]

\* The characters of a field name, for 'field in s' on a str s.
FieldChars(field) ==
    CASE field = "name" -> <<"n", "a", "m", "e">>
      [] field = "email" -> <<"e", "m", "a", "i", "l">>
      [] field = "company" -> <<"c", "o", "m", "p", "a", "n", "y">>

-----------------------------------------------------------------------------
(* The outcomes of a call to AWS (boto3): it returns, raises                *)
(* botocore.exceptions.ClientError (the service answered with an error), or *)
(* raises another exception (botocore.exceptions.BotoCoreError: no          *)
(* endpoint connection, a read timeout, no credentials), which is not a     *)
(* ClientError.                                                             *)

CallOutcomes == {"ok", "ClientError", "BotoCoreError"}

-----------------------------------------------------------------------------
(* CustomerService                                                         *)

required_fields == <<"name", "email", "company">>

\* 'field in customer_data': keys of a dict, elements of a list, substrings
\* of a str; an int, a bool or None is not iterable (TypeError).
Contains(field, data) ==
    CASE data.t = "dict" -> field \in DOMAIN data.d
      [] data.t = "list" -> \E i \in 1..Len(data.l) : data.l[i] = field
      [] data.t = "str" -> Substring(FieldChars(field), data.s)
      [] OTHER -> FALSE

Iterable(data) == data.t \in {"dict", "list", "str"}

\* Mutant of missing_fields: 'if not customer_data.get(field)', which also
\* counts a key with an empty value as missing.
MissingFieldsIfEmpty(data) ==
    LET present(f) == IF data.t = "dict"
                      THEN f \in DOMAIN data.d /\ data.d[f] # ""
                      ELSE Contains(f, data)
        keep(i) == IF present(required_fields[i]) THEN <<>>
                   ELSE <<required_fields[i]>>
    IN  keep(1) \o keep(2) \o keep(3)

\* [field for field in required_fields if field not in customer_data]
missing_fields(data) ==
    LET keep(i) == IF Contains(required_fields[i], data) THEN <<>>
                   ELSE <<required_fields[i]>>
    IN  keep(1) \o keep(2) \o keep(3)

\* ', '.join(fields)
RECURSIVE Join(_)
Join(fields) ==
    IF fields = <<>> THEN ""
    ELSE IF Len(fields) = 1 THEN fields[1]
    ELSE fields[1] \o ", " \o Join(Tail(fields))

\* ttl_days of create_customer: TTL_DAYS of the environment, 0 when it is
\* unset, not an integer or negative.
ttl_days(env) ==
    IF env.py = "None" THEN 0
    ELSE LET r == PyInt(env.s) IN IF r.ok THEN Max(0, r.v) ELSE 0

SecondsPerDay == 86400

\* expires_at of create_customer at POSIX time t: None (absent) or the
\* epoch second.
expires_at(env, t, offset) ==
    IF ttl_days(env) > 0
    THEN [set |-> TRUE,
          v |-> UtcNowTimestamp(t, offset) + ttl_days(env) * SecondsPerDay]
    ELSE [set |-> FALSE, v |-> 0]

CustPrefix == <<"c", "u", "s", "t", "_">>

\* customer_data.update({...}) and customer_data['expires_at'] = expires_at
\* on a dict d: the id is made at t2, created_at at t3, expires_at at t1.
NewItem(d, env, offset, t1, t2, t3) ==
    LET exp == expires_at(env, t1, offset)
        keys == DOMAIN d \cup {"customer_id", "created_at", "status"}
                    \cup (IF exp.set THEN {"expires_at"} ELSE {})
    IN  [k \in keys |->
            CASE k = "customer_id" -> CustPrefix \o Strftime(Now(t2, offset))
              [] k = "created_at" -> IsoFormat(Now(t3, offset))
              [] k = "status" -> "active"
              [] k = "expires_at" /\ exp.set -> exp.v
              [] OTHER -> d[k]]

\* table.put_item(Item=item): the item replaces the item of the same key.
\* The table is keyed by customer_id.
PutItem(tbl, item) ==
    [k \in DOMAIN tbl \cup {item["customer_id"]} |->
        IF k = item["customer_id"] THEN item ELSE tbl[k]]

ErrorBody(msg) == [error |-> msg]

NoCall == [fn |-> "none"]

\* What a call ends with: a returned dict (resp) or a raised exception, the
\* store operations it issued, the table and the clock after it, and the
\* service method lambda_handler called on the way (call).
Returned(resp, ops, tbl, t) ==
    [raised |-> "none", resp |-> resp, ops |-> ops, store |-> tbl, clock |-> t,
     call |-> NoCall]

Raised(exc, ops, tbl, t) ==
    [raised |-> exc, resp |-> <<>>, ops |-> ops, store |-> tbl, clock |-> t,
     call |-> NoCall]

\* CustomerService.create_customer(customer_data).  in.tickA and in.tickB
\* are the seconds that pass between the three reads of the clock, in.db the
\* outcome of put_item.
create_customer(data, tbl, t, env, offset, in) ==
    IF ~Iterable(data) THEN Raised("TypeError", <<>>, tbl, t)
    ELSE IF missing_fields(data) # <<>>
    THEN Returned([statusCode |-> 400,
                   body |-> ErrorBody("Missing required fields: "
                                        \o Join(missing_fields(data)))],
                  <<>>, tbl, t)
    ELSE IF data.t # "dict" THEN Raised("AttributeError", <<>>, tbl, t)
    ELSE
        LET t1 == t
            t2 == t1 + in.tickA
            t3 == t2 + in.tickB
            item == NewItem(data.d, env, offset, t1, t2, t3)
            op == [op |-> "put_item", Item |-> item, outcome |-> in.db]
        IN  CASE in.db = "ok" ->
                    Returned([statusCode |-> 201,
                              body |-> [message |-> "Customer created successfully",
                                        customer_id |-> item["customer_id"]]],
                             <<op>>, PutItem(tbl, item), t3)
              [] in.db = "ClientError" ->
                    Returned([statusCode |-> 500,
                              body |-> ErrorBody("Internal server error")],
                             <<op>>, tbl, t3)
              [] OTHER -> Raised(in.db, <<op>>, tbl, t3)

MinLimit == 1

MaxLimit == 200

\* Mutant of ClampLimit: min(limit, 200), no lower bound.
ClampLimitAbove(limit) == Min(limit, MaxLimit)

\* limit = max(1, min(limit, 200))
ClampLimit(limit) == Max(MinLimit, Min(limit, MaxLimit))

\* The page table.scan(Limit=n) returns: the first n items in the table's
\* own order (in.order, an order of the keys).
ScanPage(tbl, order, n) ==
    [i \in 1..Min(n, Len(order)) |-> tbl[order[i]]]

\* The resource API returns a number attribute as decimal.Decimal, which
\* json.dumps cannot encode (TypeError).
JsonSerializable(items) ==
    \A i \in 1..Len(items) : "expires_at" \notin DOMAIN items[i]

\* CustomerService.list_customers(limit)
list_customers(limit, tbl, t, in) ==
    LET n == ClampLimit(limit)
        op == [op |-> "scan", Limit |-> n, outcome |-> in.db]
        items == ScanPage(tbl, in.order, n)
    IN  CASE in.db = "ok" ->
                IF JsonSerializable(items)
                THEN Returned([statusCode |-> 200,
                               body |-> [count |-> Len(items), items |-> items]],
                              <<op>>, tbl, t)
                ELSE Raised("TypeError", <<op>>, tbl, t)
          [] in.db = "ClientError" ->
                Returned([statusCode |-> 500,
                          body |-> ErrorBody("Internal server error")],
                         <<op>>, tbl, t)
          [] OTHER -> Raised(in.db, <<op>>, tbl, t)

-----------------------------------------------------------------------------
(* lambda_handler                                                          *)

\* Mutant of base_headers: Access-Control-Allow-Methods left out.
BaseHeadersNoMethods ==
    ("Access-Control-Allow-Origin" :> "*")
        @@ ("Access-Control-Allow-Headers"
                :> "Content-Type,X-Amz-Date,Authorization,X-Api-Key")

base_headers ==
    ("Access-Control-Allow-Origin" :> "*")
        @@ ("Access-Control-Allow-Headers"
                :> "Content-Type,X-Amz-Date,Authorization,X-Api-Key")
        @@ ("Access-Control-Allow-Methods" :> "GET,POST,PUT,DELETE,OPTIONS")

\* {**base_headers, 'Content-Type': content_type}
WithContentType(content_type) ==
    base_headers @@ ("Content-Type" :> content_type)

JsonHeaders == WithContentType("application/json")

Slash == <<"/">>

Customers == <<"c", "u", "s", "t", "o", "m", "e", "r", "s">>

Dev == <<"d", "e", "v">>

Staging == <<"s", "t", "a", "g", "i", "n", "g">>

Prod == <<"p", "r", "o", "d">>

StageNames == {Dev, Staging, Prod}

\* Mutant of norm_path: norm_path = parts[2], without the leading slash.
NormPathNoSlash(path) ==
    IF StartsWith(path, Slash)
    THEN LET parts == Split2(path, "/") IN
         IF Len(parts) = 3 /\ parts[2] \in StageNames
         THEN parts[3]
         ELSE path
    ELSE path

\* Mutant of norm_path: the first segment is stripped whatever it is.
NormPathAnySegment(path) ==
    IF StartsWith(path, Slash)
    THEN LET parts == Split2(path, "/") IN
         IF Len(parts) = 3 THEN Slash \o parts[3] ELSE path
    ELSE path

\* norm_path: the path without its stage prefix
norm_path(path) ==
    IF StartsWith(path, Slash)
    THEN LET parts == Split2(path, "/") IN
         IF Len(parts) = 3 /\ parts[2] \in StageNames
         THEN Slash \o parts[3]
         ELSE path
    ELSE path

\* event.get(key, default)
EventGet(event, key, default) ==
    IF key \in DOMAIN event THEN event[key] ELSE default

\* qs = event.get('queryStringParameters') or {}
QueryParams(event) ==
    LET q == EventGet(event, "queryStringParameters", PyNone) IN
    IF q.py = "None" THEN <<>> ELSE q.d

DefaultLimit == <<"5", "0">>

\* limit = int(qs.get('limit', '50')), 50 on ValueError
RequestedLimit(qs) ==
    LET r == PyInt(IF "limit" \in DOMAIN qs THEN qs["limit"] ELSE DefaultLimit)
    IN  IF r.ok THEN r.v ELSE PyInt(DefaultLimit).v

\* result = customer_service.fn(arg); result['headers'] = headers
Served(r, fn, arg, headers) ==
    [raised |-> r.raised,
     resp |-> IF r.raised = "none"
              THEN [statusCode |-> r.resp.statusCode, body |-> r.resp.body,
                    headers |-> headers]
              ELSE r.resp,
     ops |-> r.ops, store |-> r.store, clock |-> r.clock,
     call |-> [fn |-> fn, arg |-> arg]]

\* The inline demo page; a body that is not JSON is a document of one key,
\* html.
DemoPage == "<!doctype html> ... Customer API Demo ... </html>"

\* lambda_handler(event, _context).  in.ssm is the outcome of
\* ssm.get_parameter; the rest of in goes to the service call.
lambda_handler(event, tbl, t, env, offset, in) ==
    LET http_method == EventGet(event, "httpMethod", "")
        route == norm_path(EventGet(event, "path", Slash))
        qs == QueryParams(event)
        BadRequest == Returned([statusCode |-> 400, headers |-> JsonHeaders,
                                body |-> ErrorBody("Bad request")],
                               <<>>, tbl, t)
        ServerError == Returned([statusCode |-> 500, headers |-> JsonHeaders,
                                 body |-> ErrorBody("Internal server error")],
                                <<>>, tbl, t)
    IN  IF in.ssm = "ClientError" THEN ServerError
        ELSE IF in.ssm # "ok" THEN Raised(in.ssm, <<>>, tbl, t)
        ELSE IF http_method = "OPTIONS"
        THEN Returned([statusCode |-> 200, headers |-> base_headers],
                      <<>>, tbl, t)
        ELSE IF http_method = "POST" /\ StartsWith(route, Slash \o Customers)
        THEN LET body == json_loads(EventGet(event, "body",
                                             PyStr(JsonText(JDict(<<>>)))))
             IN  CASE body.raised = "ValueError" -> BadRequest
                   [] body.raised = "none" ->
                        Served(create_customer(body.v, tbl, t, env, offset, in),
                               "create_customer", body.v, JsonHeaders)
                   [] OTHER -> Raised(body.raised, <<>>, tbl, t)
        ELSE IF http_method = "GET" /\ StartsWith(route, Slash \o Customers)
        THEN Served(list_customers(RequestedLimit(qs), tbl, t, in),
                    "list_customers", RequestedLimit(qs), JsonHeaders)
        ELSE IF http_method = "GET"
        THEN Returned([statusCode |-> 200,
                       headers |-> WithContentType("text/html; charset=utf-8"),
                       body |-> [html |-> DemoPage]],
                      <<>>, tbl, t)
        ELSE Returned([statusCode |-> 405, headers |-> JsonHeaders,
                       body |-> ErrorBody("Method not allowed")],
                      <<>>, tbl, t)

-----------------------------------------------------------------------------
(* The inputs of the model: events, AWS outcomes, the environment          *)

MaxTicks == 1

\* 2024-12-31T23:59:59Z: the next second of the clock starts a day and a
\* year.
StartClock == 20088 * SecondsPerDay + 86399

PyDict(d) == [py |-> "dict", d |-> d]

LimitTexts ==
    {<<"0">>, <<"-", "5">>, <<"1">>, <<"2", "5">>, <<"2", "0", "0">>,
     <<"2", "0", "1">>, <<"a", "b", "c">>, <<>>}

QueryStrings ==
    {PyNone, PyDict(<<>>)} \cup {PyDict([limit |-> l]) : l \in LimitTexts}

Fields == [name |-> "Ann", email |-> "ann@example.com", company |-> "Acme"]

FieldNames == {"name", "email", "company"}

PartialRecords == {[k \in S |-> Fields[k]] : S \in SUBSET FieldNames}

EmptyValued == [k \in FieldNames |-> ""]

\* A caller that sends expires_at, customer_id and status of its own.
WithExpiry == Fields @@ [expires_at |-> StartClock + 1]

WithOwnId == Fields @@ [customer_id |-> CustPrefix \o <<"x">>, status |-> "inactive"]

AllThree == <<"n", "a", "m", "e", " ", "e", "m", "a", "i", "l", " ",
              "c", "o", "m", "p", "a", "n", "y">>

EmptyNameNoEmail == [name |-> "", company |-> "Acme"]

JsonValues ==
    {JDict(d) : d \in PartialRecords
                        \cup {EmptyValued, EmptyNameNoEmail, WithExpiry, WithOwnId}}
        \cup {JList(<<>>), JList(required_fields), JStr(<<"x">>), JStr(AllThree),
              JNum(5), JNull, JBool(TRUE)}

Bodies == {PyNone, PyStr(NotJsonText)} \cup {PyStr(JsonText(v)) : v \in JsonValues}

Paths ==
    {Slash \o Customers, Slash \o Dev \o Slash \o Customers,
     Slash \o Staging \o Slash \o Customers, Slash \o Prod \o Slash \o Customers,
     Slash, Slash \o Dev, Slash \o Dev \o Slash,
     Slash \o <<"q", "a">> \o Slash \o Customers,
     Slash \o Customers \o Slash \o <<"4", "2">>,
     Slash \o Dev \o Slash \o Dev \o Slash \o Customers,
     Dev \o Slash \o Customers, Customers}

Methods == {"OPTIONS", "GET", "POST", "PUT", "DELETE"}

\* An event with any of the four keys present or absent.
EventsOf(methods, paths, queries, bodies) ==
    LET Opt(key, values) == {<<>>} \cup {key :> v : v \in values}
    IN  {m @@ p @@ q @@ b :
            m \in Opt("httpMethod", methods), p \in Opt("path", paths),
            q \in Opt("queryStringParameters", queries),
            b \in Opt("body", bodies)}

\* The events of the dispatch specification: a POST carries a body, a GET a
\* query string.
AllEvents ==
    EventsOf({"POST"}, Paths, {}, Bodies)
        \cup EventsOf({"GET"}, Paths, QueryStrings, {})
        \cup EventsOf(Methods, Paths, {}, {})

\* The events of the lifecycle specification.
CoreEvents ==
    {e \in EventsOf({"POST"}, {Slash \o Customers},  {},
                    {PyStr(JsonText(JDict(d))) :
                        d \in {Fields, WithExpiry, [name |-> "Ann"]}})
            \cup EventsOf({"GET"}, {Slash \o Dev \o Slash \o Customers},
                          {PyDict([limit |-> <<"1">>])}, {}) :
        {"httpMethod", "path"} \subseteq DOMAIN e}

\* The orders in which a scan may return the items of a table.
Orders(tbl) ==
    LET n == Cardinality(DOMAIN tbl) IN
    {o \in [1..n -> DOMAIN tbl] : \A i, j \in 1..n : o[i] = o[j] => i = j}

AnOrder(tbl) == CHOOSE o \in Orders(tbl) : TRUE

\* What the environment decides during one invocation at time t: the
\* outcomes of the AWS calls (among outcomes), the seconds that pass between
\* the clock reads of a create, the order of a scan.
InputsOf(event, tbl, t, outcomes) ==
    LET method == EventGet(event, "httpMethod", "")
        quiet(ssm) == [ssm |-> ssm, db |-> "ok", tickA |-> 0, tickB |-> 0,
                       order |-> AnOrder(tbl)]
    IN  {quiet(ssm) : ssm \in outcomes}
            \cup (IF method = "POST"
                  THEN {[ssm |-> "ok", db |-> db, tickA |-> ab[1], tickB |-> ab[2],
                         order |-> AnOrder(tbl)] :
                            db \in outcomes,
                            ab \in {x \in (0..1) \X (0..1) :
                                        t + x[1] + x[2] <= StartClock + MaxTicks}}
                  ELSE {})
            \cup (IF method = "GET"
                  THEN {[ssm |-> "ok", db |-> db, tickA |-> 0, tickB |-> 0,
                         order |-> o] :
                            db \in outcomes, o \in Orders(tbl)}
                  ELSE {})

TtlSettings ==
    {PyNone, PyStr(<<"0">>), PyStr(<<"2">>), PyStr(<<"-", "3">>),
     PyStr(<<"s", "o", "o", "n">>)}

\* UTC (the Lambda runtime) and UTC-5 (a developer's machine)
TzOffsets == {0, 0 - 5 * 3600}

NoInvocation ==
    [event |-> <<>>, in |-> <<>>, raised |-> "none", resp |-> <<>>, ops |-> <<>>,
     call |-> NoCall]

-----------------------------------------------------------------------------
(* The lifecycle specification: any number of invocations on one table     *)

Init ==
    /\ store = <<>>
    /\ clock = StartClock
    /\ ttl_env \in {PyNone, PyStr(<<"2">>)}
    /\ tz_offset \in TzOffsets
    /\ last = NoInvocation

\* One invocation of lambda_handler, from the event to the response.
Invoke(events, outcomes) ==
    \E event \in events :
        \E in \in InputsOf(event, store, clock, outcomes) :
            \E r \in {lambda_handler(event, store, clock, ttl_env, tz_offset, in)} :
                /\ store' = r.store
                /\ clock' = r.clock
                /\ last' = [event |-> event, in |-> in, raised |-> r.raised,
                            resp |-> r.resp, ops |-> r.ops, call |-> r.call]
                /\ UNCHANGED <<ttl_env, tz_offset>>

\* A second passes between invocations.
Tick ==
    /\ clock < StartClock + MaxTicks
    /\ clock' = clock + 1
    /\ UNCHANGED <<store, ttl_env, tz_offset, last>>

\* DynamoDB's time-to-live deletes an item whose expires_at has passed.
TTLExpire ==
    \E id \in DOMAIN store :
        /\ "expires_at" \in DOMAIN store[id]
        /\ store[id]["expires_at"] <= clock
        /\ store' = [k \in DOMAIN store \ {id} |-> store[k]]
        /\ UNCHANGED <<clock, ttl_env, tz_offset, last>>

Request == Invoke(CoreEvents, CallOutcomes)

Next == Request \/ Tick \/ TTLExpire

Spec == Init /\ [][Next]_vars

-----------------------------------------------------------------------------
(* The dispatch specification: one invocation, of any event, in any        *)
(* environment                                                             *)

\* Two records created earlier: one without and one with expires_at.
EarlierItem == NewItem(Fields, PyNone, 0, StartClock - 60, StartClock - 60,
                       StartClock - 60)

EarlierItemTtl == NewItem(Fields, PyStr(<<"2">>), 0, StartClock - 30,
                          StartClock - 30, StartClock - 30)

SampleStores ==
    {PutItem(<<>>, EarlierItem), PutItem(PutItem(<<>>, EarlierItem), EarlierItemTtl)}

InitDispatch ==
    /\ last = NoInvocation
    /\ \/ /\ store = <<>>
          /\ clock \in StartClock..(StartClock + MaxTicks)
          /\ ttl_env \in TtlSettings
          /\ tz_offset \in TzOffsets
       \/ /\ store \in SampleStores
          /\ clock = StartClock
          /\ ttl_env = PyNone
          /\ tz_offset = 0

Dispatch ==
    /\ last = NoInvocation
    /\ Invoke(AllEvents, CallOutcomes)

NextDispatch == Dispatch

SpecDispatch == InitDispatch /\ [][NextDispatch]_vars

\* The same, in an environment where an AWS call that fails always raises
\* ClientError.
DispatchAnswered ==
    /\ last = NoInvocation
    /\ Invoke(AllEvents, {"ok", "ClientError"})

NextAnswered == DispatchAnswered

SpecAnswered == InitDispatch /\ [][NextAnswered]_vars

-----------------------------------------------------------------------------
(* Properties                                                              *)

Invoked == last.in # <<>>

CalledCreate == last.call.fn = "create_customer"

CalledList == last.call.fn = "list_customers"

\* The required keys a record lacks.
AbsentFields(d) == FieldNames \ DOMAIN d

\* The names of a set of absent fields in the order name, email, company,
\* joined by a comma and a blank.
AbsentText(absent) ==
    CASE absent = {"name"} -> "name"
      [] absent = {"email"} -> "email"
      [] absent = {"company"} -> "company"
      [] absent = {"name", "email"} -> "name, email"
      [] absent = {"name", "company"} -> "name, company"
      [] absent = {"email", "company"} -> "email, company"
      [] absent = {"name", "email", "company"} -> "name, email, company"

RecordLacksField ==
    /\ CalledCreate
    /\ last.call.arg.t = "dict"
    /\ AbsentFields(last.call.arg.d) # {}

RejectedWithAbsentFields ==
    RecordLacksField =>
        /\ last.raised = "none"
        /\ last.resp.statusCode = 400
        /\ last.resp.body =
              [error |-> "Missing required fields: "
                            \o AbsentText(AbsentFields(last.call.arg.d))]
        /\ last.ops = <<>>

\* C1: create_customer on a record that lacks at least one of name, email,
\* company (an empty value counts as present) returns 400 with an error
\* message naming exactly the absent fields, in the order name, email,
\* company, joined by ", "; it issues no put and leaves the store as it was.
C1_MissingFieldsRejected ==
    [][/\ RejectedWithAbsentFields'
       /\ RecordLacksField' => store' = store]_vars

C1_Witness ==
    /\ RecordLacksField
    /\ last.call.arg.d = EmptyNameNoEmail
    /\ last.resp.statusCode = 400
    /\ last.resp.body = [error |-> "Missing required fields: email"]
    /\ store # <<>>

DerivedKeys == {"customer_id", "created_at", "status"}

\* 'cust_' followed by exactly 14 digits
IsCustomerId(id) ==
    /\ Len(id) = 19
    /\ SubSeq(id, 1, 5) = <<"c", "u", "s", "t", "_">>
    /\ \A i \in 6..19 :
          id[i] \in {"0", "1", "2", "3", "4", "5", "6", "7", "8", "9"}

ValidRecordPut ==
    /\ CalledCreate
    /\ last.call.arg.t = "dict"
    /\ AbsentFields(last.call.arg.d) = {}
    /\ last.in.db = "ok"

\* C2: create_customer on a record with name, email and company present,
\* whatever their values, whose put succeeds returns 201 with a customer_id
\* of the form cust_ and 14 digits, and issues exactly one put, of the
\* caller's record merged with that customer_id, a created_at and status
\* "active" (and expires_at, when the service sets one).
C2_ValidRecordCreated ==
    ValidRecordPut =>
        /\ last.raised = "none"
        /\ last.resp.statusCode = 201
        /\ IsCustomerId(last.resp.body.customer_id)
        /\ Len(last.ops) = 1
        /\ last.ops[1].op = "put_item"
        /\ LET item == last.ops[1].Item
               d == last.call.arg.d
           IN  /\ item["customer_id"] = last.resp.body.customer_id
               /\ "created_at" \in DOMAIN item
               /\ item["status"] = "active"
               /\ DOMAIN d \cup DerivedKeys \subseteq DOMAIN item
               /\ DOMAIN item \subseteq DOMAIN d \cup DerivedKeys \cup {"expires_at"}
               /\ \A k \in DOMAIN d \ (DerivedKeys \cup {"expires_at"}) :
                      item[k] = d[k]

C2_Witness ==
    /\ ValidRecordPut
    /\ last.call.arg.d = EmptyValued
    /\ last.resp.statusCode = 201
    /\ last.ops[1].Item["name"] = ""
    /\ last.resp.body.customer_id \in DOMAIN store

\* C7: list_customers issues exactly one scan, whose Limit is the requested
\* limit clamped to 1..200: 1 for a limit of 0 or less, 200 for a limit
\* above 200, the limit itself otherwise.
C7_ScanLimitClamped ==
    CalledList =>
        /\ Len(last.ops) = 1
        /\ last.ops[1].op = "scan"
        /\ last.ops[1].Limit =
              (IF last.call.arg <= 0 THEN 1
               ELSE IF last.call.arg > 200 THEN 200
               ELSE last.call.arg)

C7_Witness ==
    /\ CalledList
    /\ last.call.arg = 201
    /\ last.ops[1].Limit = 200
    /\ last.resp.statusCode = 200

MethodOf(event) == EventGet(event, "httpMethod", "")

PathOf(event) == EventGet(event, "path", <<"/">>)

GenericError ==
    /\ last.raised = "none"
    /\ last.resp.statusCode = 500
    /\ last.resp.body = [error |-> "Internal server error"]

BackendFailed ==
    /\ Invoked
    /\ \/ last.in.ssm # "ok"
       \/ last.ops # <<>> /\ last.ops[1].outcome # "ok"

\* C3: any failure of the configuration lookup, of the put of a create or
\* of the scan of a list gives the response 500 with the body
\* {"error": "Internal server error"}, which holds no text of the failure.
C3_BackendFailureIs500 == BackendFailed => GenericError

\* C4: every invocation, whatever the event and whatever the outcomes of
\* the configuration lookup and the store calls, returns a response
\* envelope; no exception leaves the handler.
C4_AlwaysResponds ==
    Invoked =>
        /\ last.raised = "none"
        /\ {"statusCode", "headers"} \subseteq DOMAIN last.resp

CorsHeaders ==
    [h \in {"Access-Control-Allow-Origin", "Access-Control-Allow-Headers",
            "Access-Control-Allow-Methods"} |->
        CASE h = "Access-Control-Allow-Origin" -> "*"
          [] h = "Access-Control-Allow-Headers" ->
                "Content-Type,X-Amz-Date,Authorization,X-Api-Key"
          [] h = "Access-Control-Allow-Methods" -> "GET,POST,PUT,DELETE,OPTIONS"]

HasCorsHeaders ==
    \A h \in DOMAIN CorsHeaders :
        h \in DOMAIN last.resp.headers /\ last.resp.headers[h] = CorsHeaders[h]

OptionsRequest == Invoked /\ MethodOf(last.event) = "OPTIONS"

Preflight200 ==
    /\ last.raised = "none"
    /\ last.resp.statusCode = 200
    /\ "body" \notin DOMAIN last.resp
    /\ HasCorsHeaders

\* C5 as claimed: an OPTIONS request, to any path and in every invocation,
\* returns 200 with no body and the three CORS headers.
C5_PreflightAlways200 == OptionsRequest => Preflight200

\* C5: an OPTIONS request to any path returns 200 with no body and the
\* three CORS headers when the configuration lookup succeeds, and the 500
\* error response, with the CORS headers, when the lookup raises
\* ClientError.
C5_PreflightAfterLookup ==
    OptionsRequest =>
        /\ last.in.ssm = "ok" => Preflight200
        /\ last.in.ssm = "ClientError" => GenericError /\ HasCorsHeaders
        /\ last.ops = <<>>

C5_Witness ==
    /\ OptionsRequest
    /\ PathOf(last.event) = <<"/", "q", "a", "/", "c", "u", "s", "t", "o", "m", "e", "r", "s">>
    /\ last.in.ssm = "ok"
    /\ last.resp.statusCode = 200

\* The paths of the model whose normalized form starts with /customers.
CustomersPaths ==
    {<<"/", "c", "u", "s", "t", "o", "m", "e", "r", "s">>,
     <<"/", "d", "e", "v", "/", "c", "u", "s", "t", "o", "m", "e", "r", "s">>,
     <<"/", "s", "t", "a", "g", "i", "n", "g", "/", "c", "u", "s", "t", "o", "m", "e", "r", "s">>,
     <<"/", "p", "r", "o", "d", "/", "c", "u", "s", "t", "o", "m", "e", "r", "s">>,
     <<"/", "c", "u", "s", "t", "o", "m", "e", "r", "s", "/", "4", "2">>}

Unrouted ==
    /\ Invoked
    /\ MethodOf(last.event) \notin {"OPTIONS", "GET"}
    /\ ~(MethodOf(last.event) = "POST" /\ PathOf(last.event) \in CustomersPaths)

NotAllowed405 ==
    /\ last.raised = "none"
    /\ last.resp.statusCode = 405
    /\ last.resp.body = [error |-> "Method not allowed"]

\* C10 as claimed: every method and path that is not OPTIONS, not GET and
\* not POST on a customers path returns 405 with the body
\* {"error": "Method not allowed"} and issues no store operation.
C10_Others405 == Unrouted => NotAllowed405 /\ last.ops = <<>>

\* C10: every method and path that is not OPTIONS, not GET and not POST on
\* a customers path issues no store operation, and returns 405 with the
\* body {"error": "Method not allowed"} when the configuration lookup
\* succeeds, the 500 error response when the lookup raises ClientError.
C10_Others405AfterLookup ==
    Unrouted =>
        /\ last.in.ssm = "ok" => NotAllowed405
        /\ last.in.ssm = "ClientError" => GenericError
        /\ last.ops = <<>>
        /\ last.call = [fn |-> "none"]

C10_Witness ==
    /\ Unrouted
    /\ MethodOf(last.event) = "POST"
    /\ PathOf(last.event) = <<"/", "q", "a", "/", "c", "u", "s", "t", "o", "m", "e", "r", "s">>
    /\ "body" \in DOMAIN last.event
    /\ last.in.ssm = "ok"
    /\ last.resp.statusCode = 405

Created ==
    /\ CalledCreate
    /\ last.raised = "none"
    /\ last.resp.statusCode = 201

\* C8: a successful create persists expires_at = creation time (epoch
\* seconds) + d * 86400 when TTL_DAYS is a positive integer d (2 in the
\* model), and no expires_at key when TTL_DAYS is 0 or unset.  The creation
\* time is any second of the invocation.
C8_ExpiresAtFromTtl ==
    [][Created' =>
        LET item == last'.ops[1].Item IN
        /\ ttl_env = [py |-> "str", s |-> <<"2">>] =>
              /\ "expires_at" \in DOMAIN item
              /\ \E t \in clock..clock' : item["expires_at"] = t + 2 * 86400
        /\ ttl_env \in {[py |-> "None"], [py |-> "str", s |-> <<"0">>]} =>
              "expires_at" \notin DOMAIN item]_vars

StagedCustomers ==
    {<<"/", "d", "e", "v", "/", "c", "u", "s", "t", "o", "m", "e", "r", "s">>,
     <<"/", "s", "t", "a", "g", "i", "n", "g", "/", "c", "u", "s", "t", "o", "m", "e", "r", "s">>,
     <<"/", "p", "r", "o", "d", "/", "c", "u", "s", "t", "o", "m", "e", "r", "s">>}

\* Paths of the model whose first segment is no stage name and that are not
\* customers paths.
OtherPaths ==
    {<<"/", "q", "a", "/", "c", "u", "s", "t", "o", "m", "e", "r", "s">>,
     <<"d", "e", "v", "/", "c", "u", "s", "t", "o", "m", "e", "r", "s">>}

WithPath(event, path) ==
    [k \in DOMAIN event \cup {"path"} |-> IF k = "path" THEN path ELSE event[k]]

\* C9: a GET or POST to /dev/customers, /staging/customers or
\* /prod/customers gives the response, the store operations and the store
\* that the same request to /customers gives in the same state with the
\* same outcomes; a path whose first segment is no stage name is routed as
\* it is (/qa/customers reaches no customers route).
C9_StagePrefixStripped ==
    [][(Invoked' /\ MethodOf(last'.event) \in {"GET", "POST"}) =>
        /\ PathOf(last'.event) \in StagedCustomers =>
              LET twin == lambda_handler(
                              WithPath(last'.event,
                                       <<"/", "c", "u", "s", "t", "o", "m", "e", "r", "s">>),
                              store, clock, ttl_env, tz_offset, last'.in)
              IN  /\ twin.raised = last'.raised
                  /\ twin.resp = last'.resp
                  /\ twin.ops = last'.ops
                  /\ twin.store = store'
        /\ (PathOf(last'.event) \in OtherPaths /\ last'.in.ssm = "ok") =>
              /\ last'.call = [fn |-> "none"]
              /\ last'.ops = <<>>]_vars

C9_Witness ==
    /\ Created
    /\ PathOf(last.event) = <<"/", "p", "r", "o", "d", "/", "c", "u", "s", "t", "o", "m", "e", "r", "s">>
    /\ store # <<>>

\* C6: a persisted record is never modified, replaced or deleted by a later
\* create or list, a create in the same clock second included; only the
\* store's time-to-live expiry removes it.
C6_RecordsReadOnly ==
    [][\A id \in DOMAIN store :
          \/ id \in DOMAIN store' /\ store'[id] = store[id]
          \/ /\ id \notin DOMAIN store'
             /\ last' = last
             /\ "expires_at" \in DOMAIN store[id]
             /\ store[id]["expires_at"] <= clock]_vars

====
